---------------------------- MODULE Spec2Model ----------------------------
(***************************************************************************)
(* The Kop AI daily briefing (main.py): fetch_news, summarize_with_ai,     *)
(* send_email_briefing and the orchestration in main().                    *)
(*                                                                         *)
(* Python strings are sequences of one-character strings, so formatting,   *)
(* concatenation and str.replace are computed character by character.      *)
(* A Python value that is either None or a str, and a dict entry that may  *)
(* be missing, is a record [k, v]: k is "absent" (no such key), "null"     *)
(* (None) or "str" (v holds the characters).                               *)
(*                                                                         *)
(* The three external services are the environment: each call's outcome    *)
(* (a response, or an exception with a message) is chosen by \E.           *)
(***************************************************************************)
EXTENDS Integers, Sequences, FiniteSets, TLC

(***************************************************************************)
(* Bounds                                                                  *)
(***************************************************************************)
\* longest article list of a news response in a whole run, and longest
\* article list passed to a directly called function
MaxArticles == 3
\* longest generated summary drawn character by character
MaxSummaryLen == 2

(***************************************************************************)
(* String literals of main.py                                              *)
(***************************************************************************)
\* main.py:28: TOPIC = 'Liverpool FC'
TOPIC ==
    <<"L", "i", "v", "e", "r", "p", "o", "o", "l", " ", "F", "C">>

\* main.py:50
NoArticlesPlaceholder ==
    <<"C", "o", "u", "l", "d", " ", "n", "o", "t", " ", "g", "e", "n", "e",
      "r", "a", "t", "e", " ", "a", " ", "s", "u", "m", "m", "a", "r", "y",
      " ", "b", "e", "c", "a", "u", "s", "e", " ", "n", "o", " ", "a", "r",
      "t", "i", "c", "l", "e", "s", " ", "w", "e", "r", "e", " ", "f", "o",
      "u", "n", "d", ".">>

\* main.py:69
ErrorSummaryPrefix ==
    <<"E", "r", "r", "o", "r", " ", "g", "e", "n", "e", "r", "a", "t", "i",
      "n", "g", " ", "A", "I", " ", "s", "u", "m", "m", "a", "r", "y", ":",
      " ">>

\* the literal substring "Error" (main.py:69 starts with it)
ErrorLiteral ==
    <<"E", "r", "r", "o", "r">>

\* main.py:55,56,83,85,142: the default 'N/A'
NA ==
    <<"N", "/", "A">>

\* str(None), what an f-string renders for a None value
NoneText ==
    <<"N", "o", "n", "e">>

\* main.py:84: the default '#'
HashUrl ==
    <<"#">>

\* main.py:86
LiOpen ==
    <<"<", "l", "i", ">">>

\* main.py:86
AHrefOpen ==
    <<"<", "a", " ", "h", "r", "e", "f", "=", "'">>

\* main.py:86
AHrefClose ==
    <<"'", ">">>

\* main.py:86
AClose ==
    <<"<", "/", "a", ">", " ", "(">>

\* main.py:86
LiClose ==
    <<")", "<", "/", "l", "i", ">">>

\* main.py:89
BrTag ==
    <<"<", "b", "r", ">">>

\* main.py:56
ArticleWord ==
    <<"A", "r", "t", "i", "c", "l", "e", " ">>

\* main.py:56
TitleOpen ==
    <<":", " ", "\"">>

\* main.py:56
SourceOpen ==
    <<"\"", " ", "(", "S", "o", "u", "r", "c", "e", ":", " ">>

\* main.py:56
SourceClose ==
    <<")", "\n">>

\* main.py:128
BannerLine ==
    <<"-", "-", "-", " ", "T", "h", "e", " ", "K", "o", "p", " ", "A", "I",
      " ", "D", "a", "i", "l", "y", " ", "B", "r", "i", "e", "f", "i", "n",
      "g", " ", "-", "-", "-">>

\* main.py:33
FetchingPrefix ==
    <<"F", "e", "t", "c", "h", "i", "n", "g", " ", "t", "o", "p", " ", "5",
      " ", "n", "e", "w", "s", " ", "a", "r", "t", "i", "c", "l", "e", "s",
      " ", "f", "o", "r", " ", "'">>

\* main.py:33
FetchingSuffix ==
    <<"'", ".", ".", ".">>

\* main.py:43
FetchErrorPrefix ==
    <<"E", "r", "r", "o", "r", " ", "f", "e", "t", "c", "h", "i", "n", "g",
      " ", "n", "e", "w", "s", ":", " ">>

\* main.py:52
SummarizingLine ==
    <<"S", "e", "n", "d", "i", "n", "g", " ", "a", "r", "t", "i", "c", "l",
      "e", "s", " ", "t", "o", " ", "G", "e", "m", "i", "n", "i", " ", "1",
      ".", "5", " ", "P", "r", "o", " ", "f", "o", "r", " ", "s", "u", "m",
      "m", "a", "r", "i", "z", "a", "t", "i", "o", "n", ".", ".", ".">>

\* main.py:75
NoCredentialsLine ==
    <<"\n", "E", "m", "a", "i", "l", " ", "c", "r", "e", "d", "e", "n", "t",
      "i", "a", "l", "s", " ", "n", "o", "t", " ", "f", "o", "u", "n", "d",
      " ", "i", "n", " ", ".", "e", "n", "v", " ", "f", "i", "l", "e", ".",
      " ", "S", "k", "i", "p", "p", "i", "n", "g", " ", "e", "m", "a", "i",
      "l", ".">>

\* main.py:78
SendingPrefix ==
    <<"S", "e", "n", "d", "i", "n", "g", " ", "e", "m", "a", "i", "l", " ",
      "b", "r", "i", "e", "f", "i", "n", "g", " ", "t", "o", " ">>

\* main.py:78
SendingSuffix ==
    <<".", ".", ".">>

\* main.py:118
SentPrefix ==
    <<"E", "m", "a", "i", "l", " ", "s", "e", "n", "t", " ", "s", "u", "c",
      "c", "e", "s", "s", "f", "u", "l", "l", "y", "!", " ", "S", "t", "a",
      "t", "u", "s", " ", "c", "o", "d", "e", ":", " ">>

\* main.py:121
SendErrorPrefix ==
    <<"E", "r", "r", "o", "r", " ", "s", "e", "n", "d", "i", "n", "g", " ",
      "e", "m", "a", "i", "l", ":", " ">>

\* main.py:138
FallbackSummaryHeader ==
    <<"\n", "-", "-", "-", " ", "A", "I", "-", "G", "e", "n", "e", "r", "a",
      "t", "e", "d", " ", "S", "u", "m", "m", "a", "r", "y", " ", "(", "C",
      "o", "n", "s", "o", "l", "e", " ", "F", "a", "l", "l", "b", "a", "c",
      "k", ")", " ", "-", "-", "-">>

\* main.py:140
FallbackHeadlinesHeader ==
    <<"\n", "-", "-", "-", " ", "T", "o", "d", "a", "y", "'", "s", " ", "T",
      "o", "p", " ", "H", "e", "a", "d", "l", "i", "n", "e", "s", " ", "(",
      "C", "o", "n", "s", "o", "l", "e", " ", "F", "a", "l", "l", "b", "a",
      "c", "k", ")", " ", "-", "-", "-">>

\* main.py:142
DashSpace ==
    <<"-", " ">>

\* main.py:142
SpaceParen ==
    <<" ", "(">>

\* main.py:142
CloseParen ==
    <<")">>

\* main.py:144
NoNewsLine ==
    <<"\n", "C", "o", "u", "l", "d", " ", "n", "o", "t", " ", "r", "e", "t",
      "r", "i", "e", "v", "e", " ", "a", "n", "y", " ", "n", "e", "w", "s",
      " ", "a", "r", "t", "i", "c", "l", "e", "s", ".">>

\* main.py:146
EndLine ==
    <<"\n", "-", "-", "-", " ", "E", "n", "d", " ", "o", "f", " ", "B", "r",
      "i", "e", "f", "i", "n", "g", " ", "-", "-", "-">>

\* main.py:110
FromEmail ==
    <<"b", "r", "i", "e", "f", "i", "n", "g", "@", "t", "h", "e", "k", "o",
      "p", "a", "i", ".", "c", "o", "m">>

\* main.py:112
Subject ==
    <<"Y", "o", "u", "r", " ", "L", "i", "v", "e", "r", "p", "o", "o", "l",
      " ", "F", "C", " ", "B", "r", "i", "e", "f", "i", "n", "g", " ", "f",
      "o", "r", " ", "T", "o", "d", "a", "y">>

\* a generated summary (the text of the spec's end-to-end scenario)
ExampleSummary ==
    <<"L", "i", "v", "e", "r", "p", "o", "o", "l", " ", "w", "o", "n", " ",
      "2", "-", "0", ".">>

\* main.py:39: page_size=5
PageSize == 5

(***************************************************************************)
(* Values                                                                  *)
(***************************************************************************)
\* Python None
Null == [k |-> "null", v |-> <<>>]

\* a key that the dict does not have
Absent == [k |-> "absent", v |-> <<>>]

\* a Python str
Str(s) == [k |-> "str", v |-> s]

\* the 'source' entry of an article: absent, None, or a dict whose 'name'
\* entry is absent, None or a str
NoSource == [k |-> "absent", name |-> Absent]

NullSource == [k |-> "null", name |-> Absent]

SourceDict(name) == [k |-> "dict", name |-> name]

\* the {} of article.get('source', {})
EmptyDict == SourceDict(Absent)

\* an article object of the news response
Article(title, url, source) == [title |-> title, url |-> url, source |-> source]

\* truthiness of a None-or-str value: `not x` holds for None and for ""
Falsy(x) == x.k = "null" \/ x.v = <<>>

\* dict.get(key, default): the default only when the key is absent; a key
\* present with the value None gives None
DictGet(entry, default) == IF entry.k = "absent" THEN default ELSE entry

\* what an f-string renders for a None-or-str value
Format(x) == IF x.k = "null" THEN NoneText ELSE x.v

Digits == <<"0", "1", "2", "3", "4", "5", "6", "7", "8", "9">>

\* what an f-string renders for a non-negative int
RECURSIVE IntToStr(_)
IntToStr(n) ==
    IF n < 10 THEN <<Digits[n + 1]>>
    ELSE IntToStr(n \div 10) \o <<Digits[(n % 10) + 1]>>

\* `needle in s` for strings
Contains(s, needle) ==
    \E i \in 1..(Len(s) - Len(needle) + 1) :
        SubSeq(s, i, i + Len(needle) - 1) = needle

\* concatenation of a sequence of strings
RECURSIVE Concat(_)
Concat(ss) == IF ss = <<>> THEN <<>> ELSE Head(ss) \o Concat(Tail(ss))

SeqsUpTo(S, n) == UNION {[1..k -> S] : k \in 0..n}

(***************************************************************************)
(* The environment: what the external services can answer                  *)
(***************************************************************************)
\* article objects a news response can carry
ArticlePool ==
    { Article(Str(<<"A">>), Str(<<"u">>), SourceDict(Str(<<"S">>))),
      Article(Str(<<"B">>), Str(<<"v">>), SourceDict(Str(<<"T">>))),
      Article(Absent, Absent, NoSource),
      Article(Null, Null, SourceDict(Null)),
      Article(Str(<<"C">>), Absent, EmptyDict),
      Article(Str(<<"D">>), Str(<<"w">>), NullSource) }

\* messages of the exceptions the clients raise
ErrorMessages == {<<"q">>}

\* a response with more article objects than the requested page size
OverfullArticles ==
    [i \in 1..(PageSize + 1) |->
        Article(Str(<<"A">>), Str(IntToStr(i)), SourceDict(Str(<<"S">>)))]

\* outcomes of newsapi.get_everything: an exception, a dict without the
\* 'articles' key, or a dict whose 'articles' is a list
NewsOutcomes(maxLen) ==
    {[kind |-> "raise", text |-> e, articles |-> <<>>] : e \in ErrorMessages}
    \cup {[kind |-> "nokey", text |-> <<>>, articles |-> <<>>]}
    \cup {[kind |-> "ok", text |-> <<>>, articles |-> as] :
             as \in SeqsUpTo(ArticlePool, maxLen) \cup {OverfullArticles}}

SummaryChars == {"a", "\n"}

\* texts the generation service can answer with
GeneratedTexts ==
    SeqsUpTo(SummaryChars, MaxSummaryLen)
    \cup {ExampleSummary, <<"n", "o", " ">> \o ErrorLiteral \o <<"s">>}

\* outcomes of model.generate_content(...).text
GenOutcomes ==
    {[kind |-> "raise", text |-> e] : e \in ErrorMessages}
    \cup {[kind |-> "ok", text |-> t] : t \in GeneratedTexts}

\* outcomes of SendGridAPIClient(...).send: a response with a status code,
\* or an exception
SendOutcomes ==
    {[kind |-> "raise", text |-> e] : e \in ErrorMessages}
    \cup {[kind |-> "ok", text |-> <<"2", "0", "2">>]}

\* values os.getenv can give for a variable
EnvValues(s) == {Null, Str(<<>>), Str(s)}

(***************************************************************************)
(* 1. fetch_news (main.py:31-44)                                           *)
(***************************************************************************)
\* main.py:35-40: the arguments of the one newsapi.get_everything call
NewsQuery(topic) ==
    [q |-> <<"\"">> \o topic \o <<"\"">>, language |-> "en",
     sort_by |-> "publishedAt", page_size |-> PageSize]

\* main.py:41: top_headlines.get('articles', [])
ArticlesOf(outcome) ==
    IF outcome.kind = "ok" THEN outcome.articles ELSE <<>>

\* fetch_news(topic), against one outcome of the news service
fetch_news(topic, outcome) ==
    [raised |-> FALSE,
     ret |-> IF outcome.kind = "raise" THEN <<>> ELSE ArticlesOf(outcome),
     prints |-> <<FetchingPrefix \o topic \o FetchingSuffix>>
                \o (IF outcome.kind = "raise"
                    THEN <<FetchErrorPrefix \o outcome.text>> ELSE <<>>),
     calls |-> 1,
     query |-> NewsQuery(topic)]

(***************************************************************************)
(* 2. summarize_with_ai (main.py:47-69)                                    *)
(***************************************************************************)
\* article.get('source', {}).get('name', 'N/A') raises AttributeError when
\* the 'source' entry is present with the value None
SourceRaises(article) == article.source.k = "null"

AnySourceRaises(articles) ==
    \E i \in 1..Len(articles) : SourceRaises(articles[i])

\* article.get('source', {}).get('name', 'N/A'), when it does not raise
source_name(article) ==
    DictGet(DictGet(article.source, EmptyDict).name, Str(NA))

\* main.py:56: one line of articles_text
ArticleLine(i, article) ==
    ArticleWord \o IntToStr(i) \o TitleOpen
    \o Format(DictGet(article.title, Str(NA)))
    \o SourceOpen \o Format(source_name(article)) \o SourceClose

\* main.py:53-56
articles_text(articles) ==
    Concat([i \in 1..Len(articles) |-> ArticleLine(i, articles[i])])

\* main.py:58-64: the prompt is a fixed wording around its two
\* interpolated values, the topic and articles_text
Prompt(topic, articles) ==
    [topic |-> topic, articles_text |-> articles_text(articles)]

NoPrompt == [topic |-> <<>>, articles_text |-> <<>>]

\* a guard that never short-circuits on the empty list
NotArticles_Never(articles) == FALSE

\* main.py:49: `if not articles`
NotArticles(articles) == Len(articles) = 0

\* main.py:65-69: the text returned around the generation call
GeneratedOrError(gen) ==
    IF gen.kind = "raise" THEN ErrorSummaryPrefix \o gen.text ELSE gen.text

\* summarize_with_ai(articles, topic), against one outcome of the
\* generation service
summarize_with_ai(articles, topic, gen) ==
    IF NotArticles(articles)
    THEN [raised |-> FALSE, ret |-> NoArticlesPlaceholder, prints |-> <<>>,
          calls |-> 0, prompt |-> NoPrompt]
    ELSE IF AnySourceRaises(articles)
    THEN [raised |-> TRUE, ret |-> <<>>, prints |-> <<SummarizingLine>>,
          calls |-> 0, prompt |-> NoPrompt]
    ELSE [raised |-> FALSE, ret |-> GeneratedOrError(gen),
          prints |-> <<SummarizingLine>>,
          calls |-> 1, prompt |-> Prompt(topic, articles)]

(***************************************************************************)
(* 3. send_email_briefing (main.py:72-122)                                 *)
(***************************************************************************)
\* `and` in place of `or`: only both values missing count as missing
CredentialsMissing_OnlyBoth(address, key) == Falsy(address) /\ Falsy(key)

\* main.py:74: `if not YOUR_EMAIL_ADDRESS or not SENDGRID_API_KEY`
CredentialsMissing(address, key) == Falsy(address) \/ Falsy(key)

\* main.py:83-86: one list item
ListItem(article) ==
    LiOpen \o AHrefOpen \o Format(DictGet(article.url, Str(HashUrl)))
    \o AHrefClose \o Format(DictGet(article.title, Str(NA)))
    \o AClose \o Format(source_name(article)) \o LiClose

\* main.py:81-86
headlines_html(articles) ==
    Concat([i \in 1..Len(articles) |-> ListItem(articles[i])])

\* a replace that stops after the first line break
RECURSIVE summary_html_FirstOnly(_)
summary_html_FirstOnly(summary) ==
    IF summary = <<>> THEN <<>>
    ELSE IF Head(summary) = "\n" THEN BrTag \o Tail(summary)
    ELSE <<Head(summary)>> \o summary_html_FirstOnly(Tail(summary))

\* main.py:89: summary.replace("\n", "<br>")
RECURSIVE summary_html(_)
summary_html(summary) ==
    IF summary = <<>> THEN <<>>
    ELSE (IF Head(summary) = "\n" THEN BrTag ELSE <<Head(summary)>>)
         \o summary_html(Tail(summary))

\* main.py:92-107: the HTML is a fixed template around its two interpolated
\* values, summary_html and headlines_html
html_content(summary, articles) ==
    [summary_html |-> summary_html(summary),
     headlines_html |-> headlines_html(articles)]

\* main.py:109-114
Mail(address, summary, articles) ==
    [from_email |-> FromEmail, to_emails |-> address.v, subject |-> Subject,
     html_content |-> html_content(summary, articles)]

NoMail ==
    [from_email |-> <<>>, to_emails |-> <<>>, subject |-> <<>>,
     html_content |-> [summary_html |-> <<>>, headlines_html |-> <<>>]]

\* a send that is tried again after an exception
SendAttempts_RetryOnError(outcome) == IF outcome.kind = "raise" THEN 2 ELSE 1

\* main.py:115-122: sg.send is called once inside the try, with no loop
SendAttempts(outcome) == 1

\* send_email_briefing(summary, articles), under the configured address and
\* key and against one outcome of the email service
send_email_briefing(summary, articles, address, key, outcome) ==
    IF CredentialsMissing(address, key)
    THEN [raised |-> FALSE, ret |-> FALSE, prints |-> <<NoCredentialsLine>>,
          calls |-> 0, message |-> NoMail]
    ELSE IF AnySourceRaises(articles)
    THEN [raised |-> TRUE, ret |-> FALSE,
          prints |-> <<SendingPrefix \o address.v \o SendingSuffix>>,
          calls |-> 0, message |-> NoMail]
    ELSE [raised |-> FALSE, ret |-> outcome.kind = "ok",
          prints |-> <<SendingPrefix \o address.v \o SendingSuffix,
                       IF outcome.kind = "ok"
                       THEN SentPrefix \o outcome.text
                       ELSE SendErrorPrefix \o outcome.text>>,
          calls |-> SendAttempts(outcome),
          message |-> Mail(address, summary, articles)]

(***************************************************************************)
(* 4. main (main.py:126-146)                                               *)
(***************************************************************************)
\* main.py:142: one headline line of the console fallback
HeadlineLine(article) ==
    DashSpace \o Format(DictGet(article.title, Null)) \o SpaceParen
    \o Format(source_name(article)) \o CloseParen

\* index of the first article whose source lookup raises, or Len + 1
FirstRaising(articles) ==
    IF AnySourceRaises(articles)
    THEN CHOOSE i \in 1..Len(articles) :
            /\ SourceRaises(articles[i])
            /\ \A j \in 1..(i - 1) : ~SourceRaises(articles[j])
    ELSE Len(articles) + 1

\* a console fallback whose loop stops one article early
console_fallback_SkipsLast(ai_summary, articles) ==
    [raised |-> AnySourceRaises(articles),
     prints |-> <<FallbackSummaryHeader, ai_summary, FallbackHeadlinesHeader>>
                \o [i \in 1..(FirstRaising(articles) - 2) |->
                       HeadlineLine(articles[i])]]

\* main.py:138-142: the console fallback
console_fallback(ai_summary, articles) ==
    [raised |-> AnySourceRaises(articles),
     prints |-> <<FallbackSummaryHeader, ai_summary, FallbackHeadlinesHeader>>
                \o [i \in 1..(FirstRaising(articles) - 1) |->
                       HeadlineLine(articles[i])]]

\* a call that passes on the list without its first article
SendArguments_DropsFirst(ai_summary, articles) ==
    [summary |-> ai_summary, articles |-> Tail(articles)]

\* main.py:135: the arguments main passes to send_email_briefing
SendArguments(ai_summary, articles) ==
    [summary |-> ai_summary, articles |-> articles]

\* a control flow that skips the send stage when the summary contains "Error"
NextStage_ErrorShortCircuit(at, articles, ai_summary, email_sent) ==
    CASE at = "start" -> "fetch"
      [] at = "after_fetch" ->
            IF Len(articles) > 0 THEN "summarize" ELSE "end"
      [] at = "after_summarize" ->
            IF Contains(ai_summary, ErrorLiteral) THEN "end" ELSE "send"
      [] at = "after_send" ->
            IF ~email_sent THEN "console-fallback" ELSE "end"
      [] at = "after_fallback" -> "end"
      [] OTHER -> "none"

\* the control flow of main: the stage that follows a position
NextStage(at, articles, ai_summary, email_sent) ==
    CASE at = "start" -> "fetch"
      [] at = "after_fetch" ->
            IF Len(articles) > 0 THEN "summarize" ELSE "end"
      [] at = "after_summarize" -> "send"
      [] at = "after_send" ->
            IF ~email_sent THEN "console-fallback" ELSE "end"
      [] at = "after_fallback" -> "end"
      [] OTHER -> "none"

(***************************************************************************)
(* State                                                                   *)
(***************************************************************************)
VARIABLES
    pc,                 \* position in main; "unit" before and "returned"
                        \* after a direct call
    stages,             \* the stages of main entered so far, in order
    YOUR_EMAIL_ADDRESS, \* main.py:18
    SENDGRID_API_KEY,   \* main.py:17
    articles,           \* main's local `articles`
    ai_summary,         \* main's local `ai_summary`
    email_sent,         \* main's local `email_sent`
    console,            \* the lines printed so far
    log                 \* the invocations so far: arguments, result and the
                        \* number of external calls each one made

vars ==
    <<pc, stages, YOUR_EMAIL_ADDRESS, SENDGRID_API_KEY, articles, ai_summary,
      email_sent, console, log>>

\* one entry of the invocation log
Invocation(fn, s, as, raised, ras, text, b, calls, prompt, message) ==
    [fn |-> fn, argSummary |-> s, argArticles |-> as, raised |-> raised,
     retArticles |-> ras, retText |-> text, retBool |-> b, calls |-> calls,
     prompt |-> prompt, message |-> message]

FetchInvocation(r) ==
    Invocation("fetch_news", <<>>, <<>>, r.raised, r.ret, <<>>, FALSE,
               r.calls, NoPrompt, NoMail)

SummarizeInvocation(as, r) ==
    Invocation("summarize_with_ai", <<>>, as, r.raised, <<>>, r.ret, FALSE,
               r.calls, r.prompt, NoMail)

SendInvocation(summary, as, r) ==
    Invocation("send_email_briefing", summary, as, r.raised, <<>>, <<>>,
               r.ret, r.calls, NoPrompt, r.message)

FallbackInvocation(summary, as, r) ==
    Invocation("console_fallback", summary, as, r.raised, <<>>, <<>>,
               FALSE, 0, NoPrompt, NoMail)

\* the module-level configuration (main.py:12-18); locals not yet bound
Configured ==
    /\ YOUR_EMAIL_ADDRESS \in EnvValues(<<"m", "@", "x">>)
    /\ SENDGRID_API_KEY \in EnvValues(<<"S", "G">>)
    /\ stages = <<>>
    /\ articles = <<>>
    /\ ai_summary = <<>>
    /\ email_sent = FALSE
    /\ console = <<>>
    /\ log = <<>>

(***************************************************************************)
(* One run of main()                                                       *)
(***************************************************************************)
Init == pc = "start" /\ Configured

\* main.py:128-130
Fetch ==
    /\ NextStage(pc, articles, ai_summary, email_sent) = "fetch"
    /\ \E outcome \in NewsOutcomes(MaxArticles) :
          LET r == fetch_news(TOPIC, outcome) IN
          /\ articles' = r.ret
          /\ console' = console \o <<BannerLine>> \o r.prints
          /\ log' = Append(log, FetchInvocation(r))
    /\ stages' = Append(stages, "fetch")
    /\ pc' = "after_fetch"
    /\ UNCHANGED <<YOUR_EMAIL_ADDRESS, SENDGRID_API_KEY, ai_summary,
                   email_sent>>

\* main.py:133
Summarize ==
    /\ NextStage(pc, articles, ai_summary, email_sent) = "summarize"
    /\ \E gen \in GenOutcomes :
          LET r == summarize_with_ai(articles, TOPIC, gen) IN
          /\ ai_summary' = IF r.raised THEN ai_summary ELSE r.ret
          /\ console' = console \o r.prints
          /\ log' = Append(log, SummarizeInvocation(articles, r))
          /\ pc' = IF r.raised THEN "crashed" ELSE "after_summarize"
    /\ stages' = Append(stages, "summarize")
    /\ UNCHANGED <<YOUR_EMAIL_ADDRESS, SENDGRID_API_KEY, articles,
                   email_sent>>

\* main.py:135
Send ==
    /\ NextStage(pc, articles, ai_summary, email_sent) = "send"
    /\ \E outcome \in SendOutcomes :
          LET args == SendArguments(ai_summary, articles)
              r == send_email_briefing(args.summary, args.articles,
                                       YOUR_EMAIL_ADDRESS, SENDGRID_API_KEY,
                                       outcome)
          IN
          /\ email_sent' = IF r.raised THEN email_sent ELSE r.ret
          /\ console' = console \o r.prints
          /\ log' = Append(log, SendInvocation(args.summary, args.articles, r))
          /\ pc' = IF r.raised THEN "crashed" ELSE "after_send"
    /\ stages' = Append(stages, "send")
    /\ UNCHANGED <<YOUR_EMAIL_ADDRESS, SENDGRID_API_KEY, articles,
                   ai_summary>>

\* main.py:137-142
Fallback ==
    /\ NextStage(pc, articles, ai_summary, email_sent) = "console-fallback"
    /\ LET r == console_fallback(ai_summary, articles) IN
          /\ console' = console \o r.prints
          /\ log' = Append(log, FallbackInvocation(ai_summary, articles, r))
          /\ pc' = IF r.raised THEN "crashed" ELSE "after_fallback"
    /\ stages' = Append(stages, "console-fallback")
    /\ UNCHANGED <<YOUR_EMAIL_ADDRESS, SENDGRID_API_KEY, articles,
                   ai_summary, email_sent>>

\* main.py:143-146
End ==
    /\ NextStage(pc, articles, ai_summary, email_sent) = "end"
    /\ console' = console
                  \o (IF pc = "after_fetch" THEN <<NoNewsLine>> ELSE <<>>)
                  \o <<EndLine>>
    /\ stages' = Append(stages, "end")
    /\ pc' = "done"
    /\ UNCHANGED <<YOUR_EMAIL_ADDRESS, SENDGRID_API_KEY, articles,
                   ai_summary, email_sent, log>>

Next == Fetch \/ Summarize \/ Send \/ Fallback \/ End

Spec == Init /\ [][Next]_vars

(***************************************************************************)
(* Direct calls of the three functions, with arguments of the caller's     *)
(* choosing                                                                *)
(***************************************************************************)
\* article lists a caller can pass
ArticleLists == SeqsUpTo(ArticlePool, MaxArticles) \cup {OverfullArticles}

\* summaries a caller can pass
Summaries ==
    GeneratedTexts \cup {NoArticlesPlaceholder}
    \cup {ErrorSummaryPrefix \o e : e \in ErrorMessages}

UnitInit == pc = "unit" /\ Configured

CallFetchNews ==
    /\ pc = "unit"
    /\ \E outcome \in NewsOutcomes(MaxArticles) :
          LET r == fetch_news(TOPIC, outcome) IN
          /\ console' = r.prints
          /\ log' = <<FetchInvocation(r)>>
    /\ pc' = "returned"
    /\ UNCHANGED <<stages, YOUR_EMAIL_ADDRESS, SENDGRID_API_KEY, articles,
                   ai_summary, email_sent>>

CallSummarize ==
    /\ pc = "unit"
    /\ \E as \in ArticleLists, gen \in GenOutcomes :
          LET r == summarize_with_ai(as, TOPIC, gen) IN
          /\ console' = r.prints
          /\ log' = <<SummarizeInvocation(as, r)>>
    /\ pc' = "returned"
    /\ UNCHANGED <<stages, YOUR_EMAIL_ADDRESS, SENDGRID_API_KEY, articles,
                   ai_summary, email_sent>>

CallSend ==
    /\ pc = "unit"
    /\ \E summary \in Summaries, as \in ArticleLists,
          outcome \in SendOutcomes :
          LET r == send_email_briefing(summary, as, YOUR_EMAIL_ADDRESS,
                                       SENDGRID_API_KEY, outcome)
          IN
          /\ console' = r.prints
          /\ log' = <<SendInvocation(summary, as, r)>>
    /\ pc' = "returned"
    /\ UNCHANGED <<stages, YOUR_EMAIL_ADDRESS, SENDGRID_API_KEY, articles,
                   ai_summary, email_sent>>

UnitNext == CallFetchNews \/ CallSummarize \/ CallSend

UnitSpec == UnitInit /\ [][UnitNext]_vars

(***************************************************************************)
(* Properties                                                              *)
(***************************************************************************)
Invocations(fn) == {i \in 1..Len(log) : log[i].fn = fn}

RECURSIVE SumCalls(_)
SumCalls(is) ==
    IF is = {} THEN 0
    ELSE LET i == CHOOSE j \in is : TRUE IN log[i].calls + SumCalls(is \ {i})

\* external calls made so far by the invocations of fn
ExternalCalls(fn) == SumCalls(Invocations(fn))

IsPrefix(s, t) == Len(s) <= Len(t) /\ SubSeq(t, 1, Len(s)) = s

RunStopped == pc \in {"done", "crashed"}

\* the text shown for a dict entry read with a default
Shown(entry, default) ==
    CASE entry.k = "absent" -> default
      [] entry.k = "null" -> <<"N", "o", "n", "e">>
      [] OTHER -> entry.v

\* the source name shown for an article whose 'source' is a dict or absent
ShownSource(a) ==
    IF a.source.k = "dict" THEN Shown(a.source.name, <<"N", "/", "A">>)
    ELSE <<"N", "/", "A">>

RunFetchEnd == <<"fetch", "end">>

RunSent == <<"fetch", "summarize", "send", "end">>

RunNotSent == <<"fetch", "summarize", "send", "console-fallback", "end">>

\* C1: every run of main follows the linear state machine: the stages
\* entered are a prefix of fetch-end, fetch-summarize-send-end or
\* fetch-summarize-send-fallback-end, and a run that has stopped has reached
\* end with the sequence that its fetch result and send result select.
C1_LinearOrchestration ==
    /\ \E r \in {RunFetchEnd, RunSent, RunNotSent} : IsPrefix(stages, r)
    /\ RunStopped =>
          /\ pc = "done"
          /\ stages = IF articles = <<>> THEN RunFetchEnd
                      ELSE IF email_sent THEN RunSent ELSE RunNotSent

\* C2: send_email_briefing invoked with the recipient address or the send
\* credential None or empty returns False without raising and makes no call
\* to the email service, whatever summary and article list it is given.
C2_NoSendWithoutCredentials ==
    \A i \in Invocations("send_email_briefing") :
        (\/ YOUR_EMAIL_ADDRESS \in {Null, Str(<<>>)}
         \/ SENDGRID_API_KEY \in {Null, Str(<<>>)})
        => /\ ~log[i].raised
           /\ log[i].retBool = FALSE
           /\ log[i].calls = 0

C2_Witness ==
    \E i \in Invocations("send_email_briefing") :
        /\ YOUR_EMAIL_ADDRESS = Str(<<>>)
        /\ SENDGRID_API_KEY = Str(<<"S", "G">>)
        /\ Len(log[i].argArticles) = 2
        /\ log[i].retBool = FALSE
        /\ log[i].calls = 0

\* C3: summarize_with_ai given an empty article sequence returns the fixed
\* placeholder text and never invokes model.generate_content.
C3_EmptyArticlesPlaceholder ==
    \A i \in Invocations("summarize_with_ai") :
        log[i].argArticles = <<>>
        => /\ ~log[i].raised
           /\ log[i].retText = NoArticlesPlaceholder
           /\ log[i].calls = 0

C3_Witness ==
    \E i \in Invocations("summarize_with_ai") :
        /\ log[i].argArticles = <<>>
        /\ log[i].retText = NoArticlesPlaceholder

\* C4: whatever the news service answers, fetch_news returns a sequence of
\* at most 5 articles.
C4_AtMostFiveArticles ==
    \A i \in Invocations("fetch_news") : Len(log[i].retArticles) <= 5

\* C5: no stage raises to its caller: every invocation of fetch_news,
\* summarize_with_ai and send_email_briefing, and the console fallback,
\* returns normally, whatever the article records hold.
C5_NoStageRaises ==
    /\ pc # "crashed"
    /\ \A i \in 1..Len(log) : ~log[i].raised

\* C6 as stated: when the string returned by summarize_with_ai contains
\* "Error", send_email_briefing is not invoked.
C6_ErrorShortCircuit ==
    \A i \in Invocations("send_email_briefing") :
        ~Contains(log[i].argSummary, <<"E", "r", "r", "o", "r">>)

\* C6 as amended: there is no short-circuit on "Error": once
\* summarize_with_ai has returned a string to main, the very next step of
\* the run invokes send_email_briefing with that string as its summary, and
\* no run that summarized ends without having invoked send_email_briefing.
C6_SendFollowsSummary ==
    /\ pc \in {"after_send", "after_fallback", "done"} /\ "summarize" \in
          {stages[j] : j \in 1..Len(stages)}
       => /\ Len(log) >= 3
          /\ log[2].fn = "summarize_with_ai"
          /\ log[3].fn = "send_email_briefing"
          /\ log[3].argSummary = log[2].retText
    /\ pc = "after_summarize" => log[Len(log)].retText = ai_summary

C6_Witness ==
    /\ pc = "done"
    /\ Len(log) >= 3
    /\ log[2].fn = "summarize_with_ai"
    /\ log[2].calls = 1
    /\ IsPrefix(ErrorSummaryPrefix, log[2].retText)
    /\ log[3].fn = "send_email_briefing"
    /\ log[3].argSummary = log[2].retText
    /\ log[3].calls = 1
    /\ log[3].retBool

\* C7: within one run the article list given to summarize_with_ai, to
\* send_email_briefing and to the console fallback is exactly the list
\* fetch_news returned, and main's list stays that list.
C7_SameArticleList ==
    Len(log) >= 1
    => /\ log[1].fn = "fetch_news"
       /\ articles = log[1].retArticles
       /\ \A i \in 2..Len(log) : log[i].argArticles = log[1].retArticles

C7_Witness ==
    /\ pc = "done"
    /\ Len(log) = 4
    /\ Len(log[1].retArticles) = 3
    /\ log[1].retArticles[1] # log[1].retArticles[2]
    /\ log[3].fn = "send_email_briefing"
    /\ log[3].argArticles = log[1].retArticles
    /\ log[4].fn = "console_fallback"
    /\ log[4].argArticles = log[1].retArticles

\* the headline line expected for an article in the console fallback
ExpectedHeadline(a) ==
    <<"-", " ">> \o Shown(a.title, <<"N", "o", "n", "e">>)
    \o <<" ", "(">> \o ShownSource(a) \o <<")">>

\* the console lines that follow the last line printed by the send stage
AfterSendLines ==
    LET n == Len(articles) + 3 IN
    IF pc = "done" THEN SubSeq(console, Len(console) - n, Len(console) - 1)
    ELSE SubSeq(console, Len(console) - n + 1, Len(console))

FallbackPrinted ==
    \E j \in 1..Len(console) : console[j] = FallbackSummaryHeader

\* C8: whenever fetch_news returned a non-empty list and
\* send_email_briefing returned False, the console fallback prints the
\* summary verbatim and then one headline line per fetched article, in fetch
\* order; and the console fallback is printed in no other case.
C8_ConsoleFallback ==
    /\ (pc \in {"after_fallback", "done"} /\ articles # <<>> /\ ~email_sent)
       => /\ Len(AfterSendLines) = Len(articles) + 3
          /\ AfterSendLines[1] = FallbackSummaryHeader
          /\ AfterSendLines[2] = ai_summary
          /\ AfterSendLines[3] = FallbackHeadlinesHeader
          /\ \A j \in 1..Len(articles) :
                AfterSendLines[3 + j] = ExpectedHeadline(articles[j])
    /\ FallbackPrinted
       => /\ articles # <<>>
          /\ \E i \in Invocations("send_email_briefing") :
                ~log[i].raised /\ log[i].retBool = FALSE
          /\ Cardinality({j \in 1..Len(console) :
                             console[j] = FallbackSummaryHeader}) = 1
          /\ Cardinality(Invocations("console_fallback")) = 1

C8_Witness ==
    /\ pc = "done"
    /\ Len(articles) = 2
    /\ articles[1] # articles[2]
    /\ ai_summary = ExampleSummary
    /\ YOUR_EMAIL_ADDRESS = Null
    /\ SENDGRID_API_KEY = Null
    /\ ~email_sent
    /\ FallbackPrinted

\* C9: no retries: in one run each external service is called at most
\* once, each stage function is invoked at most once, and one invocation of
\* send_email_briefing makes at most one send call.
C9_NoRetries ==
    /\ \A fn \in {"fetch_news", "summarize_with_ai", "send_email_briefing"} :
          /\ ExternalCalls(fn) <= 1
          /\ Cardinality(Invocations(fn)) <= 1
    /\ \A i \in 1..Len(log) : log[i].calls <= 1

C9_Witness ==
    /\ pc = "done"
    /\ \E i \in Invocations("send_email_briefing") :
          log[i].calls = 1 /\ log[i].retBool = FALSE
    /\ ExternalCalls("fetch_news") = 1
    /\ ExternalCalls("summarize_with_ai") = 1
    /\ ExternalCalls("send_email_briefing") = 1

\* positions at which a list item opens
ItemStarts(h) ==
    {p \in 1..(Len(h) - 3) : SubSeq(h, p, p + 3) = <<"<", "l", "i", ">">>}

\* the n-th list item of h: from its opening tag to the next opening tag
ItemText(h, n) ==
    LET P == ItemStarts(h)
        start == CHOOSE p \in P : Cardinality({q \in P : q < p}) = n - 1
        later == {q \in P : q > start}
        stop == IF later = {} THEN Len(h)
                ELSE (CHOOSE q \in later : \A q2 \in later : q <= q2) - 1
    IN SubSeq(h, start, stop)

\* number of line breaks among the first n characters of s
BreaksBefore(s, n) == Cardinality({j \in 1..n : s[j] = "\n"})

====
